---- MODULE Spec2Model ----
(***************************************************************************)
(* Verification model of codebase-intelligence.                            *)
(*                                                                         *)
(* Part 1: the versioned graph store, KnowledgeGraphStore in               *)
(* codebase_intelligence/utils/utils.py.  The store directory holds        *)
(* knowledge_graph.json ("current") and the archives graph_v<N>.json.      *)
(* save_graph is split at its two file writes, each of which may succeed,  *)
(* raise, or be cut short by a crash of the process.                       *)
(***************************************************************************)
EXTENDS Integers, Sequences, FiniteSets, TLC

VARIABLES
    current,       \* content of knowledge_graph.json
    archives,      \* archives[N] = content of graph_v<N>.json, for the files that exist
    clock,         \* wall clock read by datetime.now()
    pc,            \* position of the caller inside save_graph
    graph_data,    \* the dict handed to save_graph, as mutated in place by it
    json_content,  \* local json_content of the running save_graph
    pre,           \* the store as it was when the running/last save_graph began
    status,        \* how the last save_graph call ended
    calls,         \* history: version stamped by, and outcome of, every save_graph call
    ret,           \* value returned by the last load_graph / get_graph_diff call
    others,        \* names of the other files graph_v*.json of the store directory
    callers,       \* concurrent save_graph calls: each caller's position and locals
    mutex,         \* TRUE when the callers are serialized by an external lock
    proc,          \* what the subprocess of one agent call did
    agent_pc,      \* position of the Impact Assessment run that makes the call
    result,        \* the ClaudeCodeResult of client.execute
    analysis_output, \* what execute_claude_code returned or raised
    impact,        \* what impact_assessment returned or raised
    job,           \* the assets selected by the job of the run
    commits,       \* number of commits get_git_commits finds
    source_files,  \* whether the analyzer finds source files to audit
    run,           \* per asset: status, prompts rendered, agent calls made, output
    transport_failed, \* the assets whose agent call ended in a transport failure
    max_retries,   \* ClaudeCodeConfig.max_retries of the run
    rerun,         \* what the first execution of a re-executed asset saw and produced
    head,          \* repo.head.commit.hexsha
    last_commit_file, \* /tmp/dagster_last_commit.txt
    requests,      \* the RunRequests commit_sensor has returned, in order
    launched       \* the runs the scheduler has launched, by run key

concVars == <<callers, mutex>>
agentVars == <<proc, agent_pc, result, analysis_output, impact>>
\* What is fixed when a run begins.
runInputs == <<job, commits, source_files, max_retries>>
pipeVars == <<runInputs, run, transport_failed, rerun>>
sensorVars == <<head, last_commit_file, requests, launched>>

\* What the single-caller store actions leave alone.
nonStoreVars == <<others, concVars, agentVars, pipeVars, sensorVars>>

storeVars == <<current, archives, clock, pc, graph_data, json_content, pre, status, calls, ret>>

vars == <<storeVars, nonStoreVars>>

(***************************************************************************)
(* Bounds of the model.                                                    *)
(***************************************************************************)
MaxSaves == 3
MaxDiffSaves == 2
MaxScanSaves == 2
MaxNameLen == 3
MaxOthers == 1
MaxConcSaves == 3
MaxLines == 3
MaxTextLen == 5
MaxCommits == 2

(***************************************************************************)
(* Python values, as far as json.dumps tells them apart.                   *)
(***************************************************************************)
PyStr(s) == [py |-> "str", str |-> s]
PyList(xs) == [py |-> "list", items |-> xs]
PyTuple(xs) == [py |-> "tuple", items |-> xs]
PySet(xs) == [py |-> "set", items |-> xs]
PyNone == [py |-> "None"]

\* JSON text, by its syntax tree.
JsonString(s) == [json |-> "string", str |-> s]
JsonArray(xs) == [json |-> "array", items |-> xs]

\* File contents that are no JSON document.
Absent == [json |-> "absent"]
Torn == [json |-> "torn"]
NoJson == [json |-> "none"]

IsDoc(content) == content.json = "object"

\* json.dumps raises TypeError on a value that is no str/int/list/tuple/dict.
Serializable(v) == v.py \in {"str", "list", "tuple"}

\* json.dumps of a value: a tuple is written as an array, like a list.
json_dumps_value(v) ==
    IF v.py = "str" THEN JsonString(v.str) ELSE JsonArray(v.items)

\* json.loads of a value: an array is always read back as a list.
json_loads_value(j) ==
    IF j.json = "string" THEN PyStr(j.str) ELSE PyList(j.items)

\* A node dict {"id": ..., "dependencies": [...], "metadata": ...}
\* (KnowledgeGraphNode.model_dump()).
DependentNode(i, m, deps) == [id |-> i, metadata |-> m, dependencies |-> deps]

\* A node without dependencies.
Node(i, m) == DependentNode(i, m, <<>>)

GraphSerializable(g) ==
    /\ \A k \in 1..Len(g.nodes) : Serializable(g.nodes[k].metadata)
    /\ Serializable(g.metadata)

\* json.dumps(graph_data, indent=2)
json_dumps(g) ==
    [json |-> "object",
     nodes |-> [k \in 1..Len(g.nodes) |->
                   [id |-> g.nodes[k].id,
                    metadata |-> json_dumps_value(g.nodes[k].metadata),
                    dependencies |-> g.nodes[k].dependencies]],
     edges |-> g.edges,
     metadata |-> json_dumps_value(g.metadata),
     version |-> g.version,
     timestamp |-> g.timestamp]

\* json.loads(text) of a document written by json_dumps
json_loads(d) ==
    [nodes |-> [k \in 1..Len(d.nodes) |->
                   DependentNode(d.nodes[k].id, json_loads_value(d.nodes[k].metadata),
                                 d.nodes[k].dependencies)],
     edges |-> d.edges,
     metadata |-> json_loads_value(d.metadata),
     version |-> d.version,
     timestamp |-> d.timestamp]

(***************************************************************************)
(* KnowledgeGraphStore                                                     *)
(***************************************************************************)
(***************************************************************************)
(* File names of the store directory.  A name matched by graph_v*.json is  *)
(* given by what stands for the star, a sequence over NameChars; "_v" is   *)
(* one element, "_" an underscore that no "v" follows.                     *)
(***************************************************************************)
NameChars == {"1", "2", "-", "X", "_", "_v"}
Digits == {"1", "2"}

DigitValue(c) == IF c = "1" THEN 1 ELSE 2

\* f.stem.split("_v")[1]: "graph" comes first, then what precedes the next "_v".
SplitPart(middle) ==
    LET cuts == {k \in 1..Len(middle) : middle[k] = "_v"}
    IN IF cuts = {} THEN middle
       ELSE SubSeq(middle, 1, (CHOOSE k \in cuts : \A c \in cuts : k <= c) - 1)

\* The digits of an int() literal: single underscores may separate them.
IsDigits(text) ==
    /\ text # <<>>
    /\ text[1] \in Digits
    /\ text[Len(text)] \in Digits
    /\ \A k \in 1..Len(text) : text[k] \in Digits \cup {"_"}
    /\ \A k \in 1..(Len(text) - 1) : ~(text[k] = "_" /\ text[k + 1] = "_")

RECURSIVE DigitsValue(_)
DigitsValue(text) ==
    IF text = <<>> THEN 0
    ELSE LET front == SubSeq(text, 1, Len(text) - 1)
             c == text[Len(text)]
         IN IF c = "_" THEN DigitsValue(front) ELSE 10 * DigitsValue(front) + DigitValue(c)

Unsigned(text) == IF text # <<>> /\ text[1] = "-" THEN Tail(text) ELSE text

\* int(text) succeeds
IsInt(text) == IsDigits(Unsigned(text))

\* int(text)
IntValue(text) ==
    IF text[1] = "-" THEN 0 - DigitsValue(Unsigned(text)) ELSE DigitsValue(text)

\* lines 161-166 on the files that are no archive of the store: the versions appended
ScannedVersions(names) ==
    {IntValue(SplitPart(n)) : n \in {m \in names : IsInt(SplitPart(m))}}

\* max(versions, default=0)
MaxVersion(versions) ==
    IF versions = {} THEN 0 ELSE CHOOSE m \in versions : \A x \in versions : x <= m

\* Faulty variant: the next version is taken from knowledge_graph.json.
get_next_version_from_current(store_path) ==
    IF IsDoc(current) THEN current.version + 1 ELSE 1

\* Faulty variant: the highest version found is handed out again.
get_next_version_no_increment(store_path) ==
    MaxVersion(DOMAIN store_path \cup ScannedVersions(others))

\* _get_next_version: every graph_v<N>.json in the directory counts, whatever it holds.
_get_next_version(store_path) ==
    MaxVersion(DOMAIN store_path \cup ScannedVersions(others)) + 1

\* Faulty variant: reads graph_v1.json instead of knowledge_graph.json.
load_graph_first_archive(graph_file) ==
    IF 1 \in DOMAIN archives /\ IsDoc(archives[1]) THEN json_loads(archives[1]) ELSE PyNone

\* load_graph: None when the file is missing or does not parse.
load_graph(graph_file) ==
    IF IsDoc(graph_file) THEN json_loads(graph_file) ELSE PyNone

\* graph_data["version"] = ...; graph_data["timestamp"] = ...
Stamp(g, v, t) ==
    [nodes |-> g.nodes, edges |-> g.edges, metadata |-> g.metadata,
     version |-> v, timestamp |-> t]

WriteFile(dir, v, content) ==
    [n \in DOMAIN dir \cup {v} |-> IF n = v THEN content ELSE dir[n]]

SetOutcome(o) == [calls EXCEPT ![Len(calls)].outcome = o]

NoRet == [op |-> "none"]

Procs == {1, 2}

IdleCaller == [pc |-> "idle", graph_data |-> PyNone, json_content |-> NoJson]

\* An empty store directory, no call made yet.
StoreInit ==
    /\ current = Absent
    /\ archives = <<>>
    /\ clock = 0
    /\ pc = "idle"
    /\ graph_data = PyNone
    /\ json_content = NoJson
    /\ pre = [current |-> Absent, archives |-> <<>>]
    /\ status = "none"
    /\ calls = <<>>
    /\ ret = NoRet
    /\ others = {}

ConcIdle == callers = [p \in Procs |-> IdleCaller]

\* No agent call under way.
AgentIdle ==
    /\ proc = PyNone
    /\ agent_pc = "idle"
    /\ result = PyNone
    /\ analysis_output = PyNone
    /\ impact = PyNone

Stages == {"code_changes", "impact_assessment", "documentation_updates",
           "codebase_knowledge_graph", "code_quality_audit"}

\* ClaudeCodeConfig, line 65: max_retries: int = 3
DefaultMaxRetries == 3

\* response: history, what the subprocess of each agent call of the asset did
NotRun ==
    [status |-> "none", prompts |-> 0, agent_calls |-> 0, output |-> PyNone, response |-> <<>>]

NoRerun == [stage |-> "none"]

Heads == {"A", "B", "C"}

NoFile == [exists |-> FALSE]

\* The sensor has never been evaluated.
SensorIdle ==
    /\ head = "A"
    /\ last_commit_file = NoFile
    /\ requests = <<>>
    /\ launched = <<>>

\* No run of the pipeline under way.
PipeIdle ==
    /\ job = {}
    /\ commits = 0
    /\ source_files = FALSE
    /\ max_retries = DefaultMaxRetries
    /\ run = [s \in Stages |-> NotRun]
    /\ transport_failed = {}
    /\ rerun = NoRerun

Init ==
    /\ StoreInit
    /\ ConcIdle
    /\ mutex = FALSE
    /\ AgentIdle
    /\ PipeIdle
    /\ SensorIdle

\* save_graph, lines 95-100: stamp version and timestamp, serialize.
SaveBegin(g, limit) ==
    /\ pc = "idle"
    /\ Len(calls) < limit
    /\ LET v == _get_next_version(archives)
           stamped == Stamp(g, v, clock + 1)
       IN /\ clock' = clock + 1
          /\ graph_data' = stamped
          /\ pre' = [current |-> current, archives |-> archives]
          /\ ret' = NoRet
          /\ IF GraphSerializable(stamped)
             THEN /\ json_content' = json_dumps(stamped)
                  /\ pc' = "write_current"
                  /\ status' = "none"
                  /\ calls' = Append(calls, [version |-> v, outcome |-> "running"])
             ELSE /\ json_content' = NoJson
                  /\ pc' = "idle"
                  /\ status' = "raised"
                  /\ calls' = Append(calls, [version |-> v, outcome |-> "raised"])
    /\ UNCHANGED <<current, archives, nonStoreVars>>

\* save_graph, line 103: self.graph_file.write_text(json_content)
WriteCurrent ==
    /\ pc = "write_current"
    /\ current' = json_content
    /\ pc' = "write_archive"
    /\ UNCHANGED <<archives, clock, graph_data, json_content, pre, status, calls, ret,
                   nonStoreVars>>

\* line 103 raises: the file is untouched (open failed) or cut short (write failed).
WriteCurrentFails ==
    /\ pc = "write_current"
    /\ \E left \in {current, Torn} : current' = left
    /\ pc' = "idle"
    /\ status' = "raised"
    /\ calls' = SetOutcome("raised")
    /\ UNCHANGED <<archives, clock, graph_data, json_content, pre, ret, nonStoreVars>>

\* save_graph, lines 106-109: archive_file.write_text(json_content), log, return.
WriteArchive ==
    /\ pc = "write_archive"
    /\ archives' = WriteFile(archives, graph_data.version, json_content)
    /\ pc' = "idle"
    /\ status' = "returned"
    /\ calls' = SetOutcome("returned")
    /\ UNCHANGED <<current, clock, graph_data, json_content, pre, ret, nonStoreVars>>

\* line 107 raises: no archive file (open failed) or a cut-short one (write failed).
WriteArchiveFails ==
    /\ pc = "write_archive"
    /\ \/ archives' = archives
       \/ archives' = WriteFile(archives, graph_data.version, Torn)
    /\ pc' = "idle"
    /\ status' = "raised"
    /\ calls' = SetOutcome("raised")
    /\ UNCHANGED <<current, clock, graph_data, json_content, pre, ret, nonStoreVars>>

\* The process dies inside save_graph; only the files survive.
Crash ==
    /\ pc \in {"write_current", "write_archive"}
    /\ pc' = "idle"
    /\ status' = "crashed"
    /\ calls' = SetOutcome("crashed")
    /\ graph_data' = PyNone
    /\ json_content' = NoJson
    /\ UNCHANGED <<current, archives, clock, pre, ret, nonStoreVars>>

Load ==
    /\ pc = "idle"
    /\ ret' = [op |-> "load_graph", value |-> load_graph(current)]
    /\ UNCHANGED <<current, archives, clock, pc, graph_data, json_content, pre, status, calls,
                   nonStoreVars>>

(***************************************************************************)
(* Inputs of save_graph in Spec: one node at most, whose metadata ranges   *)
(* over the kinds of value Dict[str, Any] admits.                          *)
(***************************************************************************)
MetaValues == {PyStr("a"), PyList(<<"a">>), PyTuple(<<"a">>), PySet(<<"a">>)}

SaveInputs ==
    {[nodes |-> ns, edges |-> <<>>, metadata |-> PyStr("summary")] :
        ns \in {<<>>} \cup {<<Node(1, m)>> : m \in MetaValues}}

Next ==
    \/ \E g \in SaveInputs : SaveBegin(g, MaxSaves)
    \/ WriteCurrent
    \/ WriteCurrentFails
    \/ WriteArchive
    \/ WriteArchiveFails
    \/ Crash
    \/ Load

Spec == Init /\ [][Next]_vars

(***************************************************************************)
(* get_graph_diff.  A Python dict is a sequence of <<key, value>> items in *)
(* insertion order; assigning to a key that is present keeps its place.    *)
(***************************************************************************)
DictKeys(d) == {d[k][1] : k \in 1..Len(d)}

DictGet(d, key) == d[CHOOSE k \in 1..Len(d) : d[k][1] = key][2]

DictSet(d, key, value) ==
    IF key \in DictKeys(d)
    THEN [k \in 1..Len(d) |-> IF d[k][1] = key THEN <<key, value>> ELSE d[k]]
    ELSE Append(d, <<key, value>>)

RECURSIVE NodesById(_)
\* {n["id"]: n for n in nodes}
NodesById(nodes) ==
    IF nodes = <<>> THEN <<>>
    ELSE LET front == SubSeq(nodes, 1, Len(nodes) - 1)
             n == nodes[Len(nodes)]
         IN DictSet(NodesById(front), n.id, n)

\* [v for k, v in d.items() if Keep(k, v)]
Values(items) == [k \in 1..Len(items) |-> items[k][2]]

\* Faulty variant: iterates old_nodes.
added_nodes_from_old(old_nodes, new_nodes) ==
    Values(SelectSeq(old_nodes, LAMBDA it : it[1] \notin DictKeys(new_nodes)))

\* line 144
added_nodes(old_nodes, new_nodes) ==
    Values(SelectSeq(new_nodes, LAMBDA it : it[1] \notin DictKeys(old_nodes)))

\* Faulty variant: iterates new_nodes.
removed_nodes_from_new(old_nodes, new_nodes) ==
    Values(SelectSeq(new_nodes, LAMBDA it : it[1] \notin DictKeys(old_nodes)))

\* line 145
removed_nodes(old_nodes, new_nodes) ==
    Values(SelectSeq(old_nodes, LAMBDA it : it[1] \notin DictKeys(new_nodes)))

\* Faulty variant: compares by identity (is not), true of any two parsed dicts.
modified_nodes_by_identity(old_nodes, new_nodes) ==
    Values(SelectSeq(new_nodes, LAMBDA it : it[1] \in DictKeys(old_nodes)))

\* lines 146-149: n != old_nodes[n_id] compares the two dicts by value.
modified_nodes(old_nodes, new_nodes) ==
    Values(SelectSeq(new_nodes, LAMBDA it :
        /\ it[1] \in DictKeys(old_nodes)
        /\ it[2] # DictGet(old_nodes, it[1])))

VersionNotFound == [error |-> "Version not found"]
FailedToLoad == [error |-> "Failed to load versions"]

\* lines 140-156, on the two parsed graphs
graph_delta(old_graph, new_graph) ==
    LET old_nodes == NodesById(old_graph.nodes)
        new_nodes == NodesById(new_graph.nodes)
        added == added_nodes(old_nodes, new_nodes)
        removed == removed_nodes(old_nodes, new_nodes)
        modified == modified_nodes(old_nodes, new_nodes)
    IN [added_nodes |-> added,
        removed_nodes |-> removed,
        modified_nodes |-> modified,
        total_changes |-> Len(added) + Len(removed) + Len(modified)]

\* Faulty variant: `and` for `or` in the existence test; the read of the missing
\* file then ends in the except branch.
get_graph_diff_and(store_path, old_version, new_version) ==
    IF old_version \notin DOMAIN store_path /\ new_version \notin DOMAIN store_path
    THEN VersionNotFound
    ELSE IF old_version \notin DOMAIN store_path \/ new_version \notin DOMAIN store_path
              \/ ~IsDoc(store_path[old_version]) \/ ~IsDoc(store_path[new_version])
         THEN FailedToLoad
         ELSE graph_delta(json_loads(store_path[old_version]),
                          json_loads(store_path[new_version]))

\* get_graph_diff: a file that exists but does not parse ends in the except branch.
get_graph_diff(store_path, old_version, new_version) ==
    IF old_version \notin DOMAIN store_path \/ new_version \notin DOMAIN store_path
    THEN VersionNotFound
    ELSE IF ~IsDoc(store_path[old_version]) \/ ~IsDoc(store_path[new_version])
         THEN FailedToLoad
         ELSE graph_delta(json_loads(store_path[old_version]),
                          json_loads(store_path[new_version]))

Diff(old_version, new_version) ==
    /\ pc = "idle"
    /\ ret' = [op |-> "get_graph_diff", old |-> old_version, new |-> new_version,
               value |-> get_graph_diff(archives, old_version, new_version)]
    /\ UNCHANGED <<current, archives, clock, pc, graph_data, json_content, pre, status, calls,
                   nonStoreVars>>

(***************************************************************************)
(* Inputs of save_graph in SpecDiff: snapshots of up to two nodes with     *)
(* unique ids (the data model: "a node has a unique id"), listed by       *)
(* ascending id, and JSON-native metadata.  get_graph_diff is asked about  *)
(* the versions 1..MaxDiffSaves, whether or not their archives exist.      *)
(***************************************************************************)
NodeIds == {1, 2}
DiffMetaValues == {PyStr("a"), PyStr("b")}

DiffNodeLists ==
    {<<>>}
    \cup {<<Node(i, m)>> : i \in NodeIds, m \in DiffMetaValues}
    \cup {<<Node(ij[1], m), Node(ij[2], n)>> :
            ij \in {p \in NodeIds \X NodeIds : p[1] < p[2]},
            m \in DiffMetaValues, n \in DiffMetaValues}

DiffInputs ==
    {[nodes |-> ns, edges |-> <<>>, metadata |-> PyStr("summary")] : ns \in DiffNodeLists}

NextDiff ==
    \/ \E g \in DiffInputs : SaveBegin(g, MaxDiffSaves)
    \/ WriteCurrent
    \/ WriteCurrentFails
    \/ WriteArchive
    \/ WriteArchiveFails
    \/ Crash
    \/ \E a \in 1..MaxDiffSaves, b \in 1..MaxDiffSaves : Diff(a, b)

SpecDiff == Init /\ [][NextDiff]_vars

(***************************************************************************)
(* The archive scan among foreign files (SpecScan).  The agent of the      *)
(* Knowledge Graph Build is told to write its files into the directory of  *)
(* the store, so files the store did not name can stand there.             *)
(***************************************************************************)
RECURSIVE Middles(_)
Middles(n) ==
    IF n = 0 THEN {<<>>}
    ELSE Middles(n - 1) \cup {Append(m, c) : m \in Middles(n - 1), c \in NameChars}

\* Names the store itself gives its archives: graph_v<digits>.json
IsArchiveName(middle) ==
    middle # <<>> /\ \A k \in 1..Len(middle) : middle[k] \in Digits

\* "_" stands for an underscore that no "v" follows.
WellFormedName(middle) ==
    \A k \in 1..(Len(middle) - 1) : ~(middle[k] = "_" /\ middle[k + 1] = "_v")

OtherNames == {m \in Middles(MaxNameLen) : ~IsArchiveName(m) /\ WellFormedName(m)}

\* Another writer of the directory creates graph_v<middle>.json
CreateFile(middle) ==
    /\ Cardinality(others) < MaxOthers
    /\ others' = others \cup {middle}
    /\ UNCHANGED <<storeVars, concVars, agentVars, pipeVars, sensorVars>>

EmptyGraph == [nodes |-> <<>>, edges |-> <<>>, metadata |-> PyStr("summary")]

NextScan ==
    \/ SaveBegin(EmptyGraph, MaxScanSaves)
    \/ WriteCurrent
    \/ WriteArchive
    \/ \E middle \in OtherNames : CreateFile(middle)

SpecScan == Init /\ [][NextScan]_vars


(***************************************************************************)
(* Two callers of save_graph on one store path (SpecConc).  Each caller    *)
(* runs the lines of save_graph in order; the steps of the two interleave  *)
(* freely unless an external lock serializes the calls.                    *)
(***************************************************************************)
Returned(p) == callers[p].pc \in {"idle", "returned"}

\* save_graph, lines 95-100, by caller p
CallSaveBegin(p, g) ==
    /\ Returned(p)
    /\ clock < MaxConcSaves
    /\ mutex => \A q \in Procs : Returned(q)
    /\ LET stamped == Stamp(g, _get_next_version(archives), clock + 1)
       IN callers' = [callers EXCEPT ![p] = [pc |-> "write_current",
                                             graph_data |-> stamped,
                                             json_content |-> json_dumps(stamped)]]
    /\ clock' = clock + 1
    /\ UNCHANGED <<current, archives, pc, graph_data, json_content, pre, status, calls, ret,
                   others, mutex, agentVars, pipeVars, sensorVars>>

\* save_graph, line 103, by caller p
CallWriteCurrent(p) ==
    /\ callers[p].pc = "write_current"
    /\ current' = callers[p].json_content
    /\ callers' = [callers EXCEPT ![p].pc = "write_archive"]
    /\ UNCHANGED <<archives, clock, pc, graph_data, json_content, pre, status, calls, ret,
                   others, mutex, agentVars, pipeVars, sensorVars>>

\* save_graph, lines 106-109, by caller p
CallWriteArchive(p) ==
    /\ callers[p].pc = "write_archive"
    /\ archives' = WriteFile(archives, callers[p].graph_data.version, callers[p].json_content)
    /\ callers' = [callers EXCEPT ![p].pc = "returned"]
    /\ UNCHANGED <<current, clock, pc, graph_data, json_content, pre, status, calls, ret,
                   others, mutex, agentVars, pipeVars, sensorVars>>

\* The graph caller p saves: one node that names the caller.
CallerGraph(p) ==
    [nodes |-> <<Node(p, PyStr("a"))>>, edges |-> <<>>, metadata |-> PyStr("summary")]

InitConc ==
    /\ StoreInit
    /\ ConcIdle
    /\ mutex \in BOOLEAN
    /\ AgentIdle
    /\ PipeIdle
    /\ SensorIdle

NextConc ==
    \/ \E p \in Procs : CallSaveBegin(p, CallerGraph(p))
    \/ \E p \in Procs : CallWriteCurrent(p)
    \/ \E p \in Procs : CallWriteArchive(p)

SpecConc == InitConc /\ [][NextConc]_vars


(***************************************************************************)
(* Text of the agent (claude_integration.py).  A text is a sequence of     *)
(* tokens: a newline, the marker of a block tagged json (three backticks   *)
(* and json), the bare marker (three backticks), a run of prose            *)
(* that is no JSON and holds no marker, or the text of one JSON value.     *)
(***************************************************************************)
NL == [tok |-> "nl"]
FenceJson == [tok |-> "fence_json"]
Fence == [tok |-> "fence"]
Prose(w) == [tok |-> "prose", w |-> w]
Json(j) == [tok |-> "json", value |-> j]

JsonObject(f) == [json |-> "object", members |-> f]
JsonNull == [json |-> "null"]
JsonBool(b) == [json |-> "bool", flag |-> b]
JsonNumber(n) == [json |-> "number", num |-> n]

PyDict(f) == [py |-> "dict", members |-> f]
PyBool(b) == [py |-> "bool", flag |-> b]
PyInt(n) == [py |-> "int", num |-> n]

\* json.loads on the syntax tree of one JSON value
RECURSIVE loads_value(_)
loads_value(j) ==
    CASE j.json = "string" -> PyStr(j.str)
      [] j.json = "array" -> PyList([k \in DOMAIN j.items |-> loads_value(j.items[k])])
      [] j.json = "object" -> PyDict([k \in DOMAIN j.members |-> loads_value(j.members[k])])
      [] j.json = "bool" -> PyBool(j.flag)
      [] j.json = "number" -> PyInt(j.num)
      [] j.json = "null" -> PyNone

\* str.strip(): the newlines at both ends go.
Strip(text) ==
    LET keep == {k \in DOMAIN text : text[k] # NL}
    IN IF keep = {} THEN <<>>
       ELSE SubSeq(text, CHOOSE k \in keep : \A m \in keep : k <= m,
                         CHOOSE k \in keep : \A m \in keep : k >= m)

\* str.split('\n')
RECURSIVE Split(_)
Split(text) ==
    LET nls == {k \in DOMAIN text : text[k] = NL}
    IN IF nls = {} THEN <<text>>
       ELSE LET k == CHOOSE n \in nls : \A m \in nls : n <= m
            IN <<SubSeq(text, 1, k - 1)>> \o Split(SubSeq(text, k + 1, Len(text)))

JSONDecodeError == [raised |-> "JSONDecodeError"]

\* json.loads(text): the text of exactly one JSON value, white space around it allowed
json_loads_text(text) ==
    LET t == Strip(text)
    IN IF Len(t) = 1 /\ t[1].tok = "json" THEN loads_value(t[1].value) ELSE JSONDecodeError

\* dict.get(key, default)
Get(d, key, default) == IF key \in DOMAIN d.members THEN d.members[key] ELSE default

\* Faulty variant: the flag is_error is never seen.
Falsy(v) == FALSE

\* bool(v)
Truthy(v) ==
    CASE v.py = "bool" -> v.flag
      [] v.py = "None" -> FALSE
      [] v.py = "int" -> v.num # 0
      [] v.py = "str" -> v.str # <<>>
      [] v.py = "dict" -> DOMAIN v.members # {}
      [] OTHER -> v.items # <<>>

ResultType == PyStr(<<Prose("result")>>)

\* lines 104-107: the line parses to a dict whose "type" is "result"
IsResultLine(line) ==
    /\ line # <<>>
    /\ json_loads_text(line) # JSONDecodeError
    /\ json_loads_text(line).py = "dict"
    /\ Get(json_loads_text(line), "type", PyNone) = ResultType

\* Faulty variant: the first result record is kept.
RECURSIVE ScanLinesFirst(_, _)
ScanLinesFirst(lines, last_result_obj) ==
    IF lines = <<>> THEN last_result_obj
    ELSE ScanLinesFirst(Tail(lines),
                        IF IsResultLine(Head(lines)) /\ last_result_obj = PyNone
                        THEN json_loads_text(Head(lines)) ELSE last_result_obj)

\* lines 101-110: the loop over the lines; a line that does not parse is passed over
RECURSIVE ScanLines(_, _)
ScanLines(lines, last_result_obj) ==
    IF lines = <<>> THEN last_result_obj
    ELSE ScanLines(Tail(lines),
                   IF IsResultLine(Head(lines))
                   THEN json_loads_text(Head(lines)) ELSE last_result_obj)

\* re.search(FenceJson NL (.*?) NL Fence, text, re.DOTALL): where a match can start
MatchStarts(text) ==
    {i \in DOMAIN text :
        /\ text[i] = FenceJson
        /\ i + 3 <= Len(text)
        /\ text[i + 1] = NL
        /\ \E j \in (i + 2)..(Len(text) - 1) : text[j] = NL /\ text[j + 1] \in {Fence, FenceJson}}

\* match.group(1) of the leftmost match, shortest body
MatchGroup(text) ==
    LET i == CHOOSE a \in MatchStarts(text) : \A b \in MatchStarts(text) : a <= b
        ends == {j \in (i + 2)..(Len(text) - 1) :
                    text[j] = NL /\ text[j + 1] \in {Fence, FenceJson}}
        j == CHOOSE a \in ends : \A b \in ends : a <= b
    IN SubSeq(text, i + 2, j - 1)

IsMarker(t) == t \in {Fence, FenceJson}
NoMarker(t) == ~IsMarker(t)

\* final_output.replace(FenceJson, "").replace(Fence, "").strip()
ReplaceMarkers(text) == Strip(SelectSeq(text, NoMarker))

\* Faulty variant: the field is passed on as it is.
CleanVerbatim(text) == text

\* lines 126-131
Clean(text) ==
    IF \E k \in DOMAIN text : text[k] = FenceJson
    THEN IF MatchStarts(text) # {} THEN MatchGroup(text) ELSE ReplaceMarkers(text)
    ELSE text

\* ClaudeCodeResult
ClaudeCodeResult(success, output, error, metadata) ==
    [success |-> success, output |-> output, error |-> error, metadata |-> metadata]

Text(words) == PyStr(<<Prose(words)>>)
EmptyObjectLiteral == PyStr(<<Json(JsonObject(<<>>))>>)
MockMetadata == PyDict([execution_time |-> "0.5"])

\* lines 96-137: the exit status was 0, output is stdout decoded
normalize(output) ==
    LET last_result_obj == ScanLines(Split(Strip(output)), PyNone)
    IN IF last_result_obj = PyNone
       THEN IF Strip(output) # <<>>
            THEN ClaudeCodeResult(TRUE, PyStr(Strip(output)), PyNone, PyNone)
            ELSE ClaudeCodeResult(FALSE, PyStr(output),
                                  Text("No 'result' type object found in Claude output."),
                                  PyNone)
       ELSE IF Truthy(Get(last_result_obj, "is_error", PyNone))
            THEN ClaudeCodeResult(FALSE, PyNone,
                                  Get(last_result_obj, "result", Text("Unknown error")), PyNone)
            ELSE LET final_output == Get(last_result_obj, "result", EmptyObjectLiteral)
                 IN IF final_output.py # "str"
                    THEN ClaudeCodeResult(FALSE, PyNone, Text("TypeError"), PyNone)
                    ELSE ClaudeCodeResult(TRUE, PyStr(Clean(final_output.str)),
                                          PyNone, MockMetadata)

\* ClaudeCodeClient.execute_async on what the subprocess did
execute_async(p) ==
    CASE p.outcome = "oserror" ->
            ClaudeCodeResult(FALSE, PyNone, PyStr(p.message), PyNone)
      [] p.outcome = "timeout" ->
            ClaudeCodeResult(FALSE, PyNone, Text("Timeout"), PyNone)
      [] p.outcome = "exited" ->
            IF p.returncode # 0
            THEN ClaudeCodeResult(FALSE, PyNone, PyStr(p.stderr), PyNone)
            ELSE normalize(p.stdout)

Return(v) == [kind |-> "return", value |-> v]
Raise(e) == [kind |-> "raise", exc |-> e]

\* Faulty variant: a failed call is handed on as an empty output.
execute_claude_code_lenient(r) ==
    IF r.output = PyNone THEN Return(PyStr(<<>>)) ELSE Return(r.output)

\* execute_claude_code, lines 147-154, on the result of client.execute
execute_claude_code(r) ==
    IF ~r.success THEN Raise("RuntimeError")
    ELSE IF r.output = PyNone THEN Raise("RuntimeError")
    ELSE Return(r.output)

(***************************************************************************)
(* impact_assessment (assets.py), from the output of the agent on.         *)
(***************************************************************************)
ListFields == {"architectural_changes", "breaking_changes", "new_patterns",
               "performance_implications", "affected_components"}
ImpactFields == ListFields \cup {"risk_level"}

\* lines 373-380 and 390-397: the default impact_data
DefaultImpact ==
    PyDict([f \in ImpactFields |-> IF f = "risk_level" THEN Text("low") ELSE PyList(<<>>)])

IsListOfStr(v) == v.py = "list" /\ \A k \in DOMAIN v.items : v.items[k].py = "str"

\* ImpactAnalysis(**impact_data).model_dump(): six required fields, none with a default
ImpactAnalysis(impact_data) ==
    IF impact_data.py # "dict" THEN Raise("TypeError")
    ELSE IF /\ ImpactFields \subseteq DOMAIN impact_data.members
            /\ \A f \in ListFields : IsListOfStr(impact_data.members[f])
            /\ impact_data.members["risk_level"].py = "str"
         THEN Return(PyDict([f \in ImpactFields |-> impact_data.members[f]]))
         ELSE Raise("ValidationError")

\* lines 345-397: impact_data from analysis_output
ParseImpact(text) ==
    LET parsed_output == json_loads_text(text)
    IN IF parsed_output = JSONDecodeError THEN Return(DefaultImpact)
       ELSE IF parsed_output.py = "list"
            THEN IF parsed_output.items = <<>> THEN Raise("IndexError")
                 ELSE Return(parsed_output.items[Len(parsed_output.items)])
       ELSE IF parsed_output.py = "dict"
            THEN IF "architectural_changes" \in DOMAIN parsed_output.members
                 THEN Return(parsed_output)
                 ELSE Return(DefaultImpact)
       ELSE Return(DefaultImpact)

\* lines 345-408: the value of the stage, or what it raises
MapImpact(text) ==
    IF ParseImpact(text).kind = "raise" THEN ParseImpact(text)
    ELSE ImpactAnalysis(ParseImpact(text).value)

(***************************************************************************)
(* One run of Impact Assessment on a non-empty list of changes             *)
(* (SpecAgent): the call of the agent, the test of its result, the         *)
(* mapping of its output.                                                  *)
(***************************************************************************)
\* client.execute(prompt, context, workspace_path), line 144
Execute ==
    /\ agent_pc = "execute"
    /\ result' = execute_async(proc)
    /\ agent_pc' = "check"
    /\ UNCHANGED <<proc, analysis_output, impact, storeVars, others, concVars, pipeVars, sensorVars>>

\* execute_claude_code, lines 147-154; what it raises leaves the stage
ExecuteClaudeCode ==
    /\ agent_pc = "check"
    /\ analysis_output' = execute_claude_code(result)
    /\ IF analysis_output'.kind = "raise"
       THEN agent_pc' = "done" /\ impact' = analysis_output'
       ELSE agent_pc' = "parse" /\ UNCHANGED impact
    /\ UNCHANGED <<proc, result, storeVars, others, concVars, pipeVars, sensorVars>>

\* impact_assessment, lines 345-408
ImpactAssessment ==
    /\ agent_pc = "parse"
    /\ impact' = MapImpact(analysis_output.value.str)
    /\ agent_pc' = "done"
    /\ UNCHANGED <<proc, result, analysis_output, storeVars, others, concVars, pipeVars, sensorVars>>



(***************************************************************************)
(* What the agent can answer, in SpecAgent.                                *)
(***************************************************************************)
RECURSIVE SeqsUpTo(_, _)
SeqsUpTo(S, n) ==
    IF n = 0 THEN {<<>>}
    ELSE SeqsUpTo(S, n - 1) \cup {Append(q, x) : q \in SeqsUpTo(S, n - 1), x \in S}

\* '\n'.join(lines)
RECURSIVE Join(_)
Join(lines) ==
    IF lines = <<>> THEN <<>>
    ELSE IF Len(lines) = 1 THEN lines[1]
    ELSE lines[1] \o <<NL>> \o Join(Tail(lines))

Word(w) == JsonString(<<Prose(w)>>)

\* One line of the stream that holds the result record {"type": "result", "result": text}
ResultLine(text) == <<Json(JsonObject([type |-> Word("result"), result |-> JsonString(text)]))>>

\* Lines of a stream: blank, no JSON, JSON that is no object, records of another type,
\* records of type "result" with and without the error flag
StreamLines ==
    {<<>>,
     <<Prose("log")>>,
     <<Json(JsonArray(<<>>))>>,
     <<Json(JsonObject([type |-> Word("assistant"), result |-> Word("draft")]))>>,
     ResultLine(<<Prose("first")>>),
     ResultLine(<<Prose("second")>>),
     <<Json(JsonObject([type |-> Word("result"), is_error |-> JsonBool(TRUE),
                        result |-> Word("boom")]))>>}

\* A stream of up to MaxLines lines
StreamOutputs == {Join(lines) : lines \in SeqsUpTo(StreamLines, MaxLines)}

\* Outputs of one record: without "type", without "result", with a null "result"
RecordOutputs ==
    {<<Json(JsonObject([result |-> Word("untyped")]))>>,
     <<Json(JsonObject([type |-> Word("result"), is_error |-> JsonBool(TRUE)]))>>,
     <<Json(JsonObject([type |-> Word("result")]))>>,
     <<Json(JsonObject([type |-> Word("result"), is_error |-> JsonBool(FALSE),
                        result |-> JsonNull]))>>}

\* An object with the fields fs of ImpactAnalysis, each with a value of its type
ImpactObject(fs) ==
    JsonObject([f \in fs |-> IF f = "risk_level" THEN Word("high")
                             ELSE JsonArray(<<Word("api")>>)])

\* Result texts built from markers, newlines and one JSON object
FenceTokens == {NL, FenceJson, Fence, Json(ImpactObject(ImpactFields))}
FenceOutputs == {ResultLine(text) : text \in SeqsUpTo(FenceTokens, MaxTextLen)}

\* JSON values the agent may give in place of the object asked for
ImpactValues ==
    {ImpactObject(fs) : fs \in SUBSET ImpactFields}
        \cup {JsonNumber(5), Word("prose"), JsonNull,
              JsonArray(<<>>),
              JsonArray(<<JsonNumber(5)>>),
              JsonArray(<<ImpactObject(ImpactFields)>>),
              JsonArray(<<JsonNumber(5), ImpactObject(ImpactFields)>>),
              JsonArray(<<ImpactObject(ImpactFields), JsonNumber(5)>>),
              JsonArray(<<ImpactObject({"risk_level"})>>)}

\* The value as the result of a record, and as the whole output
ValueOutputs ==
    {ResultLine(<<Json(v)>>) : v \in ImpactValues} \cup {<<Json(v)>> : v \in ImpactValues}

Exited(code, out, err) ==
    [outcome |-> "exited", returncode |-> code, stdout |-> out, stderr |-> err,
     message |-> <<>>]
TimedOut ==
    [outcome |-> "timeout", returncode |-> 0, stdout |-> <<>>, stderr |-> <<>>,
     message |-> <<>>]
OSError(msg) ==
    [outcome |-> "oserror", returncode |-> 0, stdout |-> <<>>, stderr |-> <<>>,
     message |-> msg]

ErrorTexts == {<<>>, <<Prose("boom")>>, <<Prose("Timeout")>>, <<Prose("Unknown error")>>}

\* The subprocess could not be started, ran out of time, or ended with a non-zero status
TransportFailures ==
    {TimedOut}
        \cup {OSError(msg) : msg \in ErrorTexts}
        \cup {Exited(1, out, err) : out \in {<<>>, ResultLine(<<Prose("first")>>)},
                                    err \in ErrorTexts}

AgentInputs ==
    {Exited(0, out, <<>>) :
        out \in StreamOutputs \cup RecordOutputs \cup FenceOutputs \cup ValueOutputs}
        \cup TransportFailures

InitAgent ==
    /\ StoreInit
    /\ ConcIdle
    /\ mutex = FALSE
    /\ proc \in AgentInputs
    /\ agent_pc = "execute"
    /\ result = PyNone
    /\ analysis_output = PyNone
    /\ impact = PyNone
    /\ PipeIdle
    /\ SensorIdle

NextAgent ==
    \/ Execute
    \/ ExecuteClaudeCode
    \/ ImpactAssessment

SpecAgent == InitAgent /\ [][NextAgent]_vars


(***************************************************************************)
(* One run of a job over the assets (SpecRun).  The bodies of the assets   *)
(* are those of assets.py; the order of the steps, and what happens to the *)
(* steps downstream of a failed one, is that of the host scheduler.        *)
(***************************************************************************)
\* Faulty variant: no asset declares an input.
InsNone(s) == {}

\* The ins= of each asset
Ins(s) ==
    CASE s = "impact_assessment" -> {"code_changes"}
      [] s = "documentation_updates" -> {"impact_assessment"}
      [] s = "codebase_knowledge_graph" -> {"code_changes", "impact_assessment"}
      [] OTHER -> {}

\* jobs.py: continuous_analysis, quality_audit_job, full_analysis
Jobs ==
    {{"code_changes", "impact_assessment", "documentation_updates", "codebase_knowledge_graph"},
     {"code_quality_audit"},
     Stages}

\* Scheduler: every selected predecessor has succeeded
Ready(s) == \A d \in Ins(s) \cap job : run[d].status = "succeeded"

\* Scheduler: a selected predecessor has failed or was skipped
Blocked(s) == \E d \in Ins(s) \cap job : run[d].status \in {"failed", "skipped"}

\* The asset returns before any prompt is rendered
EarlyReturn(s) ==
    CASE s = "code_changes" -> commits = 0
      [] s = "impact_assessment" -> ~Truthy(run["code_changes"].output)
      [] s = "documentation_updates" -> ~Truthy(run["impact_assessment"].output)
      [] s = "code_quality_audit" -> ~source_files
      [] OTHER -> FALSE

\* What the asset returns then: Output({}) for impact_assessment, Output([]) otherwise
EarlyOutput(s) == IF s = "impact_assessment" THEN PyDict(<<>>) ELSE PyList(<<>>)

\* The body of the asset begins: it returns at once, or renders its prompt and calls
\* the agent
Begun(s) ==
    IF EarlyReturn(s)
    THEN [run[s] EXCEPT !.status = "succeeded", !.output = EarlyOutput(s), !.response = <<>>]
    ELSE [run[s] EXCEPT !.status = "running", !.prompts = @ + 1, !.agent_calls = @ + 1,
                        !.output = PyList(<<>>), !.response = <<>>]

\* The asset is started
StartStage(s) ==
    /\ s \in job
    /\ run[s].status = "pending"
    /\ Ready(s)
    /\ run' = [run EXCEPT ![s] = Begun(s)]
    /\ UNCHANGED <<runInputs, rerun, transport_failed, storeVars, others, concVars,
                   agentVars, sensorVars>>

\* Scheduler: a step downstream of a failed or skipped step is not executed
SkipStage(s) ==
    /\ s \in job
    /\ run[s].status = "pending"
    /\ Blocked(s)
    /\ run' = [run EXCEPT ![s].status = "skipped"]
    /\ UNCHANGED <<runInputs, rerun, transport_failed, storeVars, others, concVars,
                   agentVars, sensorVars>>

\* History: the agent call of asset s ended as p; a transport failure is recorded
Transported(s, p) ==
    transport_failed' = IF p \in TransportFailures THEN transport_failed \cup {s}
                        ELSE transport_failed

\* Faulty variant: a failed call is made again while max_retries allows.
RetryWhileAllowed(attempt, retries) == attempt <= retries

\* execute_claude_code, lines 144-148: client.execute is called once, outside any loop,
\* and config.max_retries is not read: no failed call is made again
ShouldRetry(attempt, retries) == FALSE

\* execute_claude_code raises in the body of the asset: the step fails
AgentCallFails(s, p) ==
    /\ run[s].status = "running"
    /\ execute_claude_code(execute_async(p)).kind = "raise"
    /\ run' = [run EXCEPT ![s] =
                  IF ShouldRetry(run[s].agent_calls - run[s].prompts + 1, max_retries)
                  THEN [@ EXCEPT !.agent_calls = @ + 1, !.response = Append(@, p)]
                  ELSE [@ EXCEPT !.status = "failed", !.response = Append(@, p)]]
    /\ Transported(s, p)
    /\ UNCHANGED <<runInputs, rerun, storeVars, others, concVars, agentVars, sensorVars>>

\* code_changes, lines 273-287: analyzed_change["analysis"]
Analysis(text) ==
    IF Strip(text) = <<>> THEN PyDict([error |-> Text("Empty analysis output")])
    ELSE LET v == json_loads_text(text)
         IN IF v = JSONDecodeError
            THEN PyDict([error |-> Text("JSON parse error"), raw_output |-> PyStr(text)])
            ELSE IF v.py = "list" /\ v.items # <<>> THEN v.items[Len(v.items)] ELSE v

\* get_git_commits: files_changed of the k-th commit of the window
CommitFiles(k) ==
    IF k = 1 THEN <<Text("a.py"), Text("b.py")>> ELSE <<Text("b.py"), Text("c.py")>>

\* code_changes, lines 289-291: commit.model_dump() with the analysis
AnalyzedChange(k, text) ==
    PyDict([commit |-> PyInt(k), files_changed |-> PyList(CommitFiles(k)),
            analysis |-> Analysis(text)])

\* code_changes: the analysis of one commit returns; the next commit, or the Output
CodeChangesStep(p) ==
    LET s == "code_changes"
        r == execute_claude_code(execute_async(p))
    IN /\ run[s].status = "running"
       /\ r.kind = "return"
       /\ LET changes == PyList(Append(run[s].output.items,
                                             AnalyzedChange(Len(run[s].output.items) + 1,
                                                            r.value.str)))
          IN run' = [run EXCEPT ![s] =
                        IF Len(changes.items) < commits
                        THEN [@ EXCEPT !.prompts = @ + 1, !.agent_calls = @ + 1,
                                       !.output = changes, !.response = Append(@, p)]
                        ELSE [@ EXCEPT !.status = "succeeded", !.output = changes,
                                       !.response = Append(@, p)]]
       /\ Transported(s, p)
       /\ UNCHANGED <<runInputs, rerun, storeVars, others, concVars, agentVars, sensorVars>>

\* impact_assessment, lines 345-408, on the output of the agent
ImpactAssessmentStep(p) ==
    LET s == "impact_assessment"
        r == execute_claude_code(execute_async(p))
    IN /\ run[s].status = "running"
       /\ r.kind = "return"
       /\ run' = [run EXCEPT ![s] =
                     IF MapImpact(r.value.str).kind = "raise"
                     THEN [@ EXCEPT !.status = "failed", !.response = Append(@, p)]
                     ELSE [@ EXCEPT !.status = "succeeded", !.response = Append(@, p),
                                    !.output = MapImpact(r.value.str).value]]
       /\ Transported(s, p)
       /\ UNCHANGED <<runInputs, rerun, storeVars, others, concVars, agentVars, sensorVars>>

\* documentation_updates, lines 455-486: the files of ./docs are listed (none here)
DocumentationStep(p) ==
    LET s == "documentation_updates"
    IN /\ run[s].status = "running"
       /\ execute_claude_code(execute_async(p)).kind = "return"
       /\ run' = [run EXCEPT ![s] = [@ EXCEPT !.status = "succeeded", !.output = PyList(<<>>),
                                               !.response = Append(@, p)]]
       /\ Transported(s, p)
       /\ UNCHANGED <<runInputs, rerun, storeVars, others, concVars, agentVars, sensorVars>>

\* "error" in audit_result.lower() or "warning" in audit_result.lower()
MentionsError(text) ==
    \E k \in DOMAIN text : text[k] \in {Prose("error"), Prose("warning")}

\* code_quality_audit, lines 535-570: one issue of severity "medium", or none
QualityAuditStep(p) ==
    LET s == "code_quality_audit"
        r == execute_claude_code(execute_async(p))
    IN /\ run[s].status = "running"
       /\ r.kind = "return"
       /\ run' = [run EXCEPT ![s] =
                     [@ EXCEPT !.status = "succeeded", !.response = Append(@, p),
                               !.output = IF MentionsError(r.value.str)
                                          THEN PyList(<<PyDict([severity |-> Text("medium"),
                                                                category |-> Text("general")])>>)
                                          ELSE PyList(<<>>)]]
       /\ Transported(s, p)
       /\ UNCHANGED <<runInputs, rerun, storeVars, others, concVars, agentVars, sensorVars>>

\* codebase_knowledge_graph, lines 625-668: the graph is built and saved; saved = FALSE
\* when save_graph raises at the write of the archive
KnowledgeGraphStep(p, saved) ==
    LET s == "codebase_knowledge_graph"
        stamped == Stamp(EmptyGraph, _get_next_version(archives), clock + 1)
    IN /\ run[s].status = "running"
       /\ execute_claude_code(execute_async(p)).kind = "return"
       /\ clock' = clock + 1
       /\ current' = json_dumps(stamped)
       /\ IF saved
          THEN /\ archives' = WriteFile(archives, stamped.version, json_dumps(stamped))
               /\ run' = [run EXCEPT ![s] = [@ EXCEPT !.status = "succeeded",
                                                      !.response = Append(@, p),
                                                      !.output = PyDict(stamped)]]
          ELSE /\ archives' = archives
               /\ run' = [run EXCEPT ![s] = [@ EXCEPT !.status = "failed",
                                                      !.response = Append(@, p)]]
       /\ Transported(s, p)
       /\ UNCHANGED <<pc, graph_data, json_content, pre, status, calls, ret, runInputs, rerun,
                      others, concVars, agentVars, sensorVars>>

\* What the subprocess of an agent call does, in SpecRun
RunInputs ==
    {TimedOut,
     Exited(1, <<>>, <<Prose("boom")>>),
     Exited(0, <<>>, <<>>),
     Exited(0, <<Prose("warning")>>, <<>>),
     Exited(0, ResultLine(<<Json(ImpactObject(ImpactFields))>>), <<>>),
     Exited(0, ResultLine(<<Json(JsonArray(<<>>))>>), <<>>)}

InitRun ==
    /\ StoreInit
    /\ ConcIdle
    /\ mutex = FALSE
    /\ AgentIdle
    /\ job \in Jobs
    /\ commits \in 0..MaxCommits
    /\ source_files \in BOOLEAN
    /\ max_retries \in {0, DefaultMaxRetries}
    /\ run = [s \in Stages |-> IF s \in job THEN [NotRun EXCEPT !.status = "pending"]
                               ELSE NotRun]
    /\ transport_failed = {}
    /\ rerun = NoRerun
    /\ SensorIdle

NextRun ==
    \/ \E s \in Stages : StartStage(s)
    \/ \E s \in Stages : SkipStage(s)
    \/ \E s \in Stages, p \in RunInputs : AgentCallFails(s, p)
    \/ \E p \in RunInputs : CodeChangesStep(p)
    \/ \E p \in RunInputs : ImpactAssessmentStep(p)
    \/ \E p \in RunInputs : DocumentationStep(p)
    \/ \E p \in RunInputs : QualityAuditStep(p)
    \/ \E p \in RunInputs, saved \in BOOLEAN : KnowledgeGraphStep(p, saved)

SpecRun == InitRun /\ [][NextRun]_vars

\* The run under a scheduler that keeps taking steps while one is possible: every agent
\* call returns (wait_for ends it at the timeout) and a step that can start is started.
MaxFairCommits == 1

InitRunFair ==
    /\ InitRun
    /\ commits <= MaxFairCommits
    /\ max_retries = DefaultMaxRetries

SpecRunFair == InitRunFair /\ [][NextRun]_vars /\ WF_vars(NextRun)


(***************************************************************************)
(* Claims on the store (Spec).                                             *)
(***************************************************************************)
Interrupted == pc = "idle" /\ status \in {"raised", "crashed"}

AllReturned(n) == \A k \in 1..n : calls[k].outcome = "returned"

WrittenVersions == {v \in DOMAIN archives : IsDoc(archives[v])}

\* C1: save_graph stamps (largest version among the existing archives) + 1, or 1
\* when there is none; so the k-th save, coming after k-1 successful saves on an
\* empty store, is stamped k.
C1_NextVersion ==
    /\ (calls # <<>> /\ graph_data # PyNone) =>
          LET v == calls[Len(calls)].version
          IN /\ graph_data.version = v
             /\ DOMAIN pre.archives = {} => v = 1
             /\ DOMAIN pre.archives # {} =>
                   /\ v - 1 \in DOMAIN pre.archives
                   /\ \A n \in DOMAIN pre.archives : n <= v - 1
    /\ \A k \in 1..Len(calls) : AllReturned(k - 1) => calls[k].version = k

C1_Witness == Len(calls) = MaxSaves /\ AllReturned(MaxSaves)

\* C2: a save interrupted between its two writes leaves "current" on a version
\* whose archive exists (the archive is written before "current").
C2_CurrentHasArchive ==
    Interrupted => (IsDoc(current) => current.version \in DOMAIN archives)

\* C3: whenever no save is running, the version in knowledge_graph.json is the
\* highest version whose archive was successfully written.
C3_CurrentIsHighest ==
    (pc = "idle" /\ IsDoc(current)) => current.version = MaxVersion(WrittenVersions)

\* C4: no version number is stamped on two different save_graph calls.
C4_NoVersionReuse ==
    \A i \in 1..Len(calls), j \in 1..Len(calls) :
        i # j => calls[i].version # calls[j].version

\* C5: a save_graph that raises leaves the store as it was: load_graph returns
\* the same snapshot and the archives are the same as before the call.
C5_FailedSaveKeepsStore ==
    (pc = "idle" /\ status = "raised") =>
        /\ load_graph(current) = load_graph(pre.current)
        /\ archives = pre.archives

JsonNativeValue(v) == v.py \in {"str", "list"}

JsonNative(g) ==
    /\ \A k \in 1..Len(g.nodes) : JsonNativeValue(g.nodes[k].metadata)
    /\ JsonNativeValue(g.metadata)

SameSnapshot(loaded, g) ==
    /\ loaded # PyNone
    /\ loaded.nodes = g.nodes
    /\ loaded.edges = g.edges
    /\ loaded.metadata = g.metadata

LoadedAfterSave == status = "returned" /\ ret.op = "load_graph"

\* C6 (as stated): load_graph right after a successful save_graph(S) returns S
\* up to version and timestamp, for every graph S.
C6_RoundTrip == LoadedAfterSave => SameSnapshot(ret.value, graph_data)

\* C6 (amended): the same, for every graph S made of JSON-native values
\* (str, list, string-keyed dict): a tuple comes back as a list.
C6_RoundTripJsonNative ==
    (LoadedAfterSave /\ JsonNative(graph_data)) => SameSnapshot(ret.value, graph_data)

C6_Witness ==
    /\ LoadedAfterSave
    /\ JsonNative(graph_data)
    /\ graph_data.nodes # <<>>
    /\ Len(calls) >= 2

(***************************************************************************)
(* Claims on get_graph_diff (SpecDiff).                                    *)
(***************************************************************************)
DiffCalled == ret.op = "get_graph_diff"

HasDelta(value) ==
    {"added_nodes", "removed_nodes", "modified_nodes", "total_changes"}
        \cap DOMAIN value # {}

Archived(v) == v \in DOMAIN archives /\ IsDoc(archives[v])

NodesOf(v) == json_loads(archives[v]).nodes

\* C7: get_graph_diff computes a delta only when both archive files exist; with
\* either one missing it returns {"error": "Version not found"} and no delta field.
C7_VersionNotFound ==
    DiffCalled =>
        /\ (ret.old \notin DOMAIN archives \/ ret.new \notin DOMAIN archives) =>
              /\ ret.value = [error |-> "Version not found"]
              /\ ~HasDelta(ret.value)
        /\ HasDelta(ret.value) =>
              (ret.old \in DOMAIN archives /\ ret.new \in DOMAIN archives)

C7_Witness ==
    /\ DiffCalled
    /\ ret.old \in DOMAIN archives
    /\ ret.new \notin DOMAIN archives
    /\ ret.value = [error |-> "Version not found"]

\* C8: for archived A and B, added = the nodes of B whose id is not in A,
\* removed = the nodes of A whose id is not in B, modified = the nodes of B whose
\* id is in A with a different value there, total_changes = the three lengths' sum.
C8_DiffSets ==
    (DiffCalled /\ Archived(ret.old) /\ Archived(ret.new)) =>
        LET A == NodesOf(ret.old)
            B == NodesOf(ret.new)
            InA(id) == \E k \in 1..Len(A) : A[k].id = id
            InB(id) == \E k \in 1..Len(B) : B[k].id = id
            Differs(n) == \E k \in 1..Len(A) : A[k].id = n.id /\ A[k] # n
        IN /\ ret.value.added_nodes = SelectSeq(B, LAMBDA n : ~InA(n.id))
           /\ ret.value.removed_nodes = SelectSeq(A, LAMBDA n : ~InB(n.id))
           /\ ret.value.modified_nodes = SelectSeq(B, LAMBDA n : Differs(n))
           /\ ret.value.total_changes =
                 Len(ret.value.added_nodes) + Len(ret.value.removed_nodes)
                    + Len(ret.value.modified_nodes)

C8_Witness ==
    /\ DiffCalled /\ Archived(ret.old) /\ Archived(ret.new)
    /\ ret.value.added_nodes # <<>>
    /\ ret.value.modified_nodes # <<>>
    /\ ret.value.total_changes = 2

\* C9: get_graph_diff(v, v) of an archived v reports nothing.
C9_DiffSelf ==
    (DiffCalled /\ ret.old = ret.new /\ Archived(ret.old)) =>
        ret.value = [added_nodes |-> <<>>, removed_nodes |-> <<>>,
                     modified_nodes |-> <<>>, total_changes |-> 0]

C9_Witness ==
    /\ DiffCalled /\ ret.old = ret.new /\ Archived(ret.old)
    /\ Len(NodesOf(ret.old)) = 2

\* C10: for archived A and B, the added nodes of get_graph_diff(A, B) are the
\* removed nodes of get_graph_diff(B, A), and the two total_changes are equal.
C10_DiffAntisymmetric ==
    (DiffCalled /\ Archived(ret.old) /\ Archived(ret.new)) =>
        LET back == get_graph_diff(archives, ret.new, ret.old)
        IN /\ ret.value.added_nodes = back.removed_nodes
           /\ ret.value.total_changes = back.total_changes

C10_Witness ==
    /\ DiffCalled /\ Archived(ret.old) /\ Archived(ret.new)
    /\ ret.old # ret.new
    /\ ret.value.added_nodes # <<>>
    /\ ret.value.removed_nodes # <<>>

(***************************************************************************)
(* Claims on the archive scan (SpecScan).                                  *)
(***************************************************************************)
\* C11: only the files named exactly graph_v<integer>.json count for the next
\* version; every other file the scan matches is skipped and adds no version.
C11_OnlyArchivesCount ==
    (calls # <<>> /\ graph_data # PyNone) =>
        graph_data.version = MaxVersion(DOMAIN pre.archives) + 1

(***************************************************************************)
(* Claims on concurrent saves (SpecConc).                                  *)
(***************************************************************************)
Began(p) == callers[p].pc # "idle"

SameVersion(p, q) ==
    /\ p # q
    /\ Began(p) /\ Began(q)
    /\ callers[p].graph_data.version = callers[q].graph_data.version

\* The archive of a returned call holds what another call wrote.
Overwritten(p) ==
    /\ callers[p].pc = "returned"
    /\ archives[callers[p].graph_data.version] # callers[p].json_content

\* knowledge_graph.json and the highest archive hold different snapshots.
CurrentNotHighest ==
    /\ \A p \in Procs : Returned(p)
    /\ archives # <<>>
    /\ current # archives[MaxVersion(DOMAIN archives)]

Collision ==
    \/ \E p \in Procs, q \in Procs : SameVersion(p, q)
    \/ \E p \in Procs : Overwritten(p)
    \/ CurrentNotHighest

Normalized ==
    /\ agent_pc # "execute"
    /\ proc.outcome = "exited"
    /\ proc.returncode = 0

OutputLines == Split(Strip(proc.stdout))

\* The lines that hold a JSON object whose type is "result"
ResultLines ==
    {k \in DOMAIN OutputLines :
        /\ Len(OutputLines[k]) = 1
        /\ OutputLines[k][1].tok = "json"
        /\ OutputLines[k][1].value.json = "object"
        /\ "type" \in DOMAIN OutputLines[k][1].value.members
        /\ OutputLines[k][1].value.members.type = Word("result")}

LastResultLine == CHOOSE k \in ResultLines : \A m \in ResultLines : m <= k

\* The members of the last record of type "result"
LastRecord == OutputLines[LastResultLine][1].value.members

\* C13: lines that do not parse are ignored, and of the records of type "result" only
\* the last one counts: the outcome is the outcome of an output made of that record alone.
C13_LastResultRecordWins ==
    (Normalized /\ ResultLines # {}) =>
        result = execute_async(Exited(0, OutputLines[LastResultLine], <<>>))

C13_Witness ==
    /\ Normalized
    /\ Cardinality(ResultLines) = 2
    /\ \E k \in DOMAIN OutputLines : OutputLines[k] = <<Prose("log")>>
    /\ OutputLines[1] = ResultLine(<<Prose("first")>>)
    /\ OutputLines[LastResultLine] = ResultLine(<<Prose("second")>>)
    /\ result.success
    /\ result.output = Text("second")

BlankOutput == Strip(proc.stdout) = <<>>

\* C14: without a record of type "result" a non-blank output is returned trimmed, and a
\* blank output is a usable outcome: the stage that made the call is not aborted.
C14_BlankOutputIsUsable ==
    (Normalized /\ ResultLines = {}) =>
        IF BlankOutput
        THEN agent_pc = "done" => impact.kind = "return"
        ELSE result.success /\ result.output = PyStr(Strip(proc.stdout))

ErrorFlagged ==
    /\ Normalized
    /\ ResultLines # {}
    /\ "is_error" \in DOMAIN LastRecord
    /\ LastRecord.is_error = JsonBool(TRUE)

\* C15: when the last record of type "result" carries is_error, the outcome is a failure
\* with no output, and its error is the result field of the record.
C15_ErrorFlagFails ==
    ErrorFlagged =>
        /\ ~result.success
        /\ result.output = PyNone
        /\ "result" \in DOMAIN LastRecord => result.error = loads_value(LastRecord.result)

C15_Witness ==
    /\ ErrorFlagged
    /\ "result" \in DOMAIN LastRecord
    /\ LastRecord.result = Word("boom")
    /\ result.error = Text("boom")
    /\ agent_pc = "done"
    /\ impact = Raise("RuntimeError")

\* The last record of type "result" is no error and its result field is a text or absent
TextResult ==
    /\ Normalized
    /\ ResultLines # {}
    /\ LET record == LastRecord
       IN /\ "is_error" \in DOMAIN record => record.is_error # JsonBool(TRUE)
          /\ "result" \in DOMAIN record => record.result.json = "string"

\* The text of the result field, the literal {} when the field is absent
FieldText ==
    LET record == LastRecord
    IN IF "result" \in DOMAIN record THEN record.result.str ELSE <<Json(JsonObject(<<>>))>>

\* A fenced block tagged json: its marker at i, a newline, the body, a newline at j, a marker
IsBlock(text, i, j) ==
    /\ i + 2 <= j /\ j + 1 <= Len(text)
    /\ text[i] = FenceJson /\ text[i + 1] = NL
    /\ text[j] = NL /\ text[j + 1] \in {Fence, FenceJson}

Blocks(text) == {b \in (DOMAIN text) \X (DOMAIN text) : IsBlock(text, b[1], b[2])}

\* The body of the first block, closed at the first closing marker
FirstBody(text) ==
    LET b == CHOOSE x \in Blocks(text) :
                 \A y \in Blocks(text) : x[1] < y[1] \/ (x[1] = y[1] /\ x[2] <= y[2])
    IN SubSeq(text, b[1] + 2, b[2] - 1)

HasMarker(text) == \E k \in DOMAIN text : text[k] = FenceJson

\* C16: the output of a non-error record is the body of the fenced block tagged json
\* when the result field holds one, and the field verbatim otherwise.
C16_BodyOrVerbatim ==
    TextResult =>
        LET text == FieldText
        IN result.output = PyStr(IF Blocks(text) # {} THEN FirstBody(text) ELSE text)

\* C16, amended: as above, but a field that holds the marker of a block tagged json and
\* no whole block is returned with every marker removed and trimmed.
C16_BodyOrMarkersRemovedOrVerbatim ==
    TextResult =>
        LET text == FieldText
        IN result.output =
               PyStr(IF Blocks(text) # {} THEN FirstBody(text)
                     ELSE IF HasMarker(text) THEN Strip(SelectSeq(text, NoMarker))
                     ELSE text)

C16_Witness ==
    /\ TextResult
    /\ FieldText = <<FenceJson, Json(ImpactObject(ImpactFields)), Fence>>
    /\ result.output = PyStr(<<Json(ImpactObject(ImpactFields))>>)
    /\ agent_pc = "done"
    /\ impact.kind = "return"

\* C17: a transport failure is a failure, and no outcome of a call whose subprocess
\* ended with status 0 equals the outcome of a transport failure.
C17_TransportDistinct ==
    agent_pc # "execute" =>
        IF proc.outcome = "exited" /\ proc.returncode = 0
        THEN \A t \in TransportFailures : result # execute_async(t)
        ELSE ~result.success

(***************************************************************************)
(* Claims on a run of the pipeline (SpecRun).                              *)
(***************************************************************************)
RECURSIVE Upstream(_)
\* The assets s depends on, directly or not
Upstream(s) == Ins(s) \cup UNION {Upstream(d) : d \in Ins(s)}

RunOver == \A s \in job : run[s].status \in {"succeeded", "failed", "skipped"}

\* C27: when Impact Assessment has completed, its value carries the six fields of
\* ImpactAnalysis and its risk_level is low, medium or high; also when the list of
\* change records is empty.
C27_OneCompleteImpact ==
    run["impact_assessment"].status = "succeeded" =>
        /\ run["impact_assessment"].output.py = "dict"
        /\ DOMAIN run["impact_assessment"].output.members = ImpactFields
        /\ run["impact_assessment"].output.members["risk_level"]
              \in {Text("low"), Text("medium"), Text("high")}

\* The values a QualityIssue may have for severity and for category
Severities == {Text("low"), Text("medium"), Text("high"), Text("critical")}
Categories == {Text("tech_debt"), Text("security"), Text("performance"), Text("consistency")}

\* C28: every issue the Quality Audit has returned has a severity among low, medium,
\* high, critical and a category among tech_debt, security, performance, consistency.
C28_IssueEnums ==
    run["code_quality_audit"].status = "succeeded" =>
        \A k \in DOMAIN run["code_quality_audit"].output.items :
            /\ run["code_quality_audit"].output.items[k].members["severity"] \in Severities
            /\ run["code_quality_audit"].output.items[k].members["category"] \in Categories

\* The store directory is as it was when the run began: empty
StoreUntouched == current = Absent /\ DOMAIN archives = {}

\* C29: in a run, the store has changed only if Knowledge Graph Build has completed, and
\* then it holds exactly one new archive; while the stage is pending, running, skipped
\* or failed, knowledge_graph.json and the archives are as they were.
C29_StoreChangesOnlyByCompletedBuild ==
    /\ run["codebase_knowledge_graph"].status # "succeeded" => StoreUntouched
    /\ run["codebase_knowledge_graph"].status = "succeeded" =>
          /\ Cardinality(DOMAIN archives) = 1
          /\ IsDoc(current)

\* The declared predecessor of each stage, as <<predecessor, stage>>
Before ==
    {<<"code_changes", "impact_assessment">>,
     <<"impact_assessment", "documentation_updates">>,
     <<"code_changes", "codebase_knowledge_graph">>,
     <<"impact_assessment", "codebase_knowledge_graph">>}

\* The body of the stage has begun
HasBegun(s) == run[s].status \in {"running", "succeeded", "failed"}

\* C25: a stage has begun only if each of its predecessors selected in the run has
\* succeeded (impact_assessment after code_changes, documentation_updates after
\* impact_assessment, codebase_knowledge_graph after both; code_quality_audit waits for
\* nothing), and eventually every selected stage is succeeded, failed or skipped.
C25_OrderedAndTerminating ==
    /\ [](\A e \in Before :
             ({e[1], e[2]} \subseteq job /\ HasBegun(e[2])) => run[e[1]].status = "succeeded")
    /\ <>RunOver

\* code_changes failed hard; its three dependents ended skipped while code_quality_audit,
\* which began before code_changes did, succeeded
C25_Witness ==
    /\ RunOver
    /\ job = Stages
    /\ run["code_changes"].status = "failed"
    /\ \A s \in {"impact_assessment", "documentation_updates", "codebase_knowledge_graph"} :
          run[s].status = "skipped"
    /\ run["code_quality_audit"].status = "succeeded"

\* The agent call that ended as p failed: execute_claude_code raised
CallFailed(p) == execute_claude_code(execute_async(p)).kind = "raise"

\* C26: every stage has made exactly one agent call for each prompt it rendered, and a
\* failed call (non-zero exit, timeout, I/O error, error record) is the last call of its
\* stage, which has failed; this for every value of max_retries.
C26_NoRetry ==
    \A s \in Stages :
        /\ run[s].agent_calls = run[s].prompts
        /\ Len(run[s].response) =
              IF run[s].status = "running" THEN run[s].agent_calls - 1 ELSE run[s].agent_calls
        /\ \A k \in DOMAIN run[s].response :
              CallFailed(run[s].response[k]) =>
                  /\ k = Len(run[s].response)
                  /\ run[s].status = "failed"

\* With max_retries = 3 a stage failed on the time-out of its only agent call
C26_Witness ==
    /\ max_retries = DefaultMaxRetries
    /\ \E s \in job :
          /\ run[s].status = "failed"
          /\ run[s].response = <<TimedOut>>
          /\ run[s].prompts = 1
          /\ run[s].agent_calls = 1

\* A step of a finished run is executed again, on the outputs its predecessors left.
\* rerun keeps what its first execution answered, returned and left in the store.
Reinvoke(s) ==
    /\ RunOver
    /\ rerun = NoRerun
    /\ s \in job
    /\ run[s].status = "succeeded"
    /\ rerun' = [stage |-> s, response |-> run[s].response, output |-> run[s].output,
                 current |-> current, archives |-> archives]
    /\ run' = [run EXCEPT ![s] = Begun(s)]
    /\ UNCHANGED <<runInputs, transport_failed, storeVars, others, concVars, agentVars,
                   sensorVars>>

NextRerun ==
    \/ NextRun
    \/ \E s \in Stages : Reinvoke(s)

MaxRerunCommits == 1

\* The runs of the two jobs that are launched by the sensor and by the schedule
InitRerun ==
    /\ InitRun
    /\ job # Stages
    /\ commits <= MaxRerunCommits
    /\ max_retries = DefaultMaxRetries

SpecRerun == InitRerun /\ [][NextRerun]_vars

\* C24: when a stage has been executed a second time on the same inputs and the agent
\* answered as it did the first time, the stage returns what it returned the first time
\* and the store holds what it held after the first execution.
C24_ReinvocationChangesNothing ==
    (/\ rerun.stage # "none"
     /\ run[rerun.stage].status = "succeeded"
     /\ run[rerun.stage].response = rerun.response) =>
        /\ run[rerun.stage].output = rerun.output
        /\ current = rerun.current
        /\ archives = rerun.archives

\* C18: when the agent call of a stage ends in a transport failure the stage fails;
\* every selected stage downstream of it gets no prompt and no agent call and is skipped
\* by the end of the run, and a stage is skipped only downstream of a failed stage.
C18_DownstreamSkipped ==
    /\ \A s \in transport_failed :
          /\ run[s].status = "failed"
          /\ \A d \in job :
                s \in Upstream(d) =>
                    /\ run[d].status \in {"pending", "skipped"}
                    /\ run[d].prompts = 0
                    /\ run[d].agent_calls = 0
                    /\ RunOver => run[d].status = "skipped"
    /\ \A d \in job :
          run[d].status = "skipped" =>
              \E s \in Upstream(d) \cap job : run[s].status = "failed"

C18_Witness ==
    /\ job = Stages
    /\ transport_failed = {"impact_assessment"}
    /\ run["code_changes"].status = "succeeded"
    /\ run["documentation_updates"].status = "skipped"
    /\ run["codebase_knowledge_graph"].status = "skipped"
    /\ run["code_quality_audit"].status = "succeeded"
    /\ run["code_quality_audit"].agent_calls = 1

(***************************************************************************)
(* Claims on the mapping of Impact Assessment (SpecAgent).                 *)
(***************************************************************************)
\* analysis_output holds the text of a JSON object
StructuredObject ==
    /\ agent_pc = "done"
    /\ analysis_output.kind = "return"
    /\ json_loads_text(analysis_output.value.str) # JSONDecodeError
    /\ json_loads_text(analysis_output.value.str).py = "dict"

\* C19: on a JSON object the stage succeeds, and its value has every field the object
\* carries and the documented default for every field the object lacks.
C19_MissingFieldsDefaulted ==
    StructuredObject =>
        /\ impact.kind = "return"
        /\ impact.value =
              PyDict([f \in ImpactFields |->
                         Get(json_loads_text(analysis_output.value.str), f,
                             IF f = "risk_level" THEN Text("low") ELSE PyList(<<>>))])

\* The text is no JSON, a JSON scalar, or a list that does not end with an object
NotAnObject(text) ==
    \/ json_loads_text(text) = JSONDecodeError
    \/ /\ json_loads_text(text) # JSONDecodeError
       /\ json_loads_text(text).py # "dict"
       /\ ~(/\ json_loads_text(text).py = "list"
            /\ json_loads_text(text).items # <<>>
            /\ json_loads_text(text).items[Len(json_loads_text(text).items)].py = "dict")

\* C20: when the agent answered (status 0) with a blank output, a text that is no JSON,
\* a JSON scalar, an empty list or a list whose last element is no object, the stage
\* returns the impact with five empty lists and risk_level "low".
C20_ContentErrorsDegrade ==
    (/\ agent_pc = "done"
     /\ proc.outcome = "exited" /\ proc.returncode = 0
     /\ \/ BlankOutput
        \/ analysis_output.kind = "return" /\ NotAnObject(analysis_output.value.str)) =>
        /\ impact.kind = "return"
        /\ impact.value =
              PyDict([f \in ImpactFields |->
                         IF f = "risk_level" THEN Text("low") ELSE PyList(<<>>)])

(***************************************************************************)
(* save_graph on graphs whose nodes name dependencies (SpecGraph).  An     *)
(* edge of the "edges" list is the pair <<from, to>>.                      *)
(***************************************************************************)
MaxGraphSaves == 2

\* Graphs of at most two nodes, each depending on the other or on nothing, with any of
\* the edges between the two
GraphInputs ==
    LET n1 == {DependentNode(1, PyStr("a"), d) : d \in {<<>>, <<2>>}}
        n2 == {DependentNode(2, PyStr("a"), d) : d \in {<<>>, <<1>>}}
        nodeLists == {<<>>} \cup {<<a>> : a \in n1} \cup {<<a, b>> : a \in n1, b \in n2}
        edgeLists == {<<>>, <<(<<1, 2>>)>>, <<(<<2, 1>>)>>, <<(<<1, 2>>), <<2, 1>>>>}
    IN {[nodes |-> ns, edges |-> es, metadata |-> PyStr("summary")] :
           ns \in nodeLists, es \in edgeLists}

NextGraph ==
    \/ \E g \in GraphInputs : SaveBegin(g, MaxGraphSaves)
    \/ WriteCurrent
    \/ WriteArchive

SpecGraph == Init /\ [][NextGraph]_vars

\* The snapshots the store directory holds
Snapshots == {c \in {current} \cup {archives[v] : v \in DOMAIN archives} : IsDoc(c)}

MaxEvaluations == 4

\* last_commit_file.write_text(current_head)
FileOf(h) == [exists |-> TRUE, text |-> h]

\* Faulty variant: every evaluation sees a new commit.
IsNewHeadAlways(file, current_head) == TRUE

\* lines 690-693: not (the file exists and its stripped text is the head); a hexsha has
\* no white space, so that strip() leaves it as it is
IsNewHead(file, current_head) == ~(file.exists /\ file.text = current_head)

\* f"commit_{current_head}"
run_key(current_head) == <<"commit_", current_head>>

\* RunRequest(run_key=..., tags={"commit": current_head}), or None
RunRequest(current_head) ==
    [returned |-> "RunRequest", run_key |-> run_key(current_head), commit |-> current_head]

NoRequest == [returned |-> "None", run_key |-> <<>>, commit |-> ""]

\* Scheduler: a request whose run key a run already has launches nothing
Submit(runs, request) ==
    IF request.returned = "None" \/ \E k \in DOMAIN runs : runs[k].run_key = request.run_key
    THEN runs
    ELSE Append(runs, [run_key |-> request.run_key, commit |-> request.commit])

\* One evaluation of commit_sensor, and the launch of what it requests.  Each entry of
\* requests also records the head and the file the evaluation saw.
Evaluate ==
    /\ Len(requests) < MaxEvaluations
    /\ LET current_head == head
           value == IF IsNewHead(last_commit_file, current_head)
                    THEN RunRequest(current_head) ELSE NoRequest
       IN /\ last_commit_file' = IF IsNewHead(last_commit_file, current_head)
                                 THEN FileOf(current_head) ELSE last_commit_file
          /\ requests' = Append(requests, [value |-> value, head |-> current_head,
                                           file |-> last_commit_file])
          /\ launched' = Submit(launched, value)
    /\ UNCHANGED <<head, storeVars, others, concVars, agentVars, pipeVars>>

\* A commit, a checkout or a reset moves the head
HeadMoves(h) ==
    /\ h # head
    /\ head' = h
    /\ UNCHANGED <<last_commit_file, requests, launched, storeVars, others, concVars,
                   agentVars, pipeVars>>

InitSensor ==
    /\ StoreInit
    /\ ConcIdle
    /\ mutex = FALSE
    /\ AgentIdle
    /\ PipeIdle
    /\ head \in Heads
    /\ last_commit_file \in {NoFile} \cup {FileOf(h) : h \in Heads}
    /\ requests = <<>>
    /\ launched = <<>>

NextSensor ==
    \/ Evaluate
    \/ \E h \in Heads : HeadMoves(h)

SpecSensor == InitSensor /\ [][NextSensor]_vars

\* The evaluations that returned a RunRequest
Emitted == {i \in DOMAIN requests : requests[i].value.returned = "RunRequest"}

\* C22: an evaluation of commit_sensor returns a request only when the head differs from
\* the head the file holds (or there is no file), so never at the evaluation that
\* follows one of the same head; every request has the run key commit_<head>; two requests for the same head have the same run key; and the
\* scheduler has launched at most one run for each head, also when the head came back
\* to an earlier commit.
C22_AtMostOneRunPerHead ==
    /\ \A i \in Emitted :
          /\ requests[i].file # FileOf(requests[i].head)
          /\ requests[i].value.run_key = <<"commit_", requests[i].head>>
    /\ \A i \in Emitted :
          ~(i > 1 /\ requests[i - 1].head = requests[i].head)
    /\ \A i, j \in Emitted :
          requests[i].head = requests[j].head =>
              requests[i].value.run_key = requests[j].value.run_key
    /\ \A h \in Heads :
          Cardinality({k \in DOMAIN launched : launched[k].commit = h}) <= 1

\* The head went A, B, A with an evaluation at each: two requests for A, one run for A
C22_Witness ==
    /\ \E i, j, k \in Emitted :
          /\ i < j /\ j < k
          /\ requests[i].head = "A" /\ requests[j].head = "B" /\ requests[k].head = "A"
    /\ Cardinality({k \in DOMAIN launched : launched[k].commit = "A"}) = 1
    /\ \E i \in DOMAIN requests : requests[i].value.returned = "None"

(***************************************************************************)
(* Claims on the values the stages of a run produce (SpecRun).             *)
(***************************************************************************)
\* The object the agent's answer p carries, if it carries one
AnswerObject(p) ==
    LET r == execute_claude_code(execute_async(p))
        v == IF r.kind = "return" THEN json_loads_text(r.value.str) ELSE JSONDecodeError
    IN IF v = JSONDecodeError THEN PyNone
       ELSE IF v.py = "list" /\ v.items # <<>> THEN v.items[Len(v.items)]
       ELSE v

\* The answer p gives an explicit affected_components list
ExplicitList(p) ==
    /\ AnswerObject(p).py = "dict"
    /\ "affected_components" \in DOMAIN AnswerObject(p).members

\* The file paths touched by the change records
UnionOfFiles(changes) ==
    UNION {{changes.items[i].members["files_changed"].items[k] :
               k \in DOMAIN changes.items[i].members["files_changed"].items} :
           i \in DOMAIN changes.items}

\* C21: when Impact Assessment completed on an answer of the agent that gives no explicit
\* affected_components list, its affected_components is the union of the file paths
\* touched by the change records it was given.
C21_AffectedDefaultsToUnion ==
    LET ia == run["impact_assessment"]
    IN (/\ ia.status = "succeeded"
        /\ ia.response # <<>>
        /\ ~ExplicitList(ia.response[1])) =>
           {ia.output.members["affected_components"].items[k] :
               k \in DOMAIN ia.output.members["affected_components"].items}
               = UnionOfFiles(run["code_changes"].output)

====
